---- MODULE Spec2Model ----
(***************************************************************************)
(* Byte-level BPE tokenizer: src/bpe/base.py (helpers, Tokenizer with      *)
(* save / load) and src/bpe/basic.py (BaseTokenizer: train, encode,        *)
(* decode).                                                                *)
(*                                                                         *)
(* Representation.                                                         *)
(*  - A Python str is a sequence of code points; a bytes object is a       *)
(*    sequence of integers 0..255.  Text files are sequences of code       *)
(*    points (the model file is ASCII for every input used here).          *)
(*  - A Python dict is insertion ordered: it is a sequence of <<key,       *)
(*    value>> entries with distinct keys.  An assignment to an existing    *)
(*    key keeps the key's position, a new key is appended.  The vocab is   *)
(*    only ever looked up by key in the modelled code, so it is a          *)
(*    function from ids to byte strings.                                   *)
(*  - A call returns a record [err, val]; err = "none" is a normal return, *)
(*    otherwise err is the name of the exception that propagates.          *)
(*  - The human readable .vocab listing written by save is not kept; only  *)
(*    the lookups save performs while writing it (they can raise KeyError) *)
(*    are modelled.                                                        *)
(***************************************************************************)
EXTENDS Integers, Sequences, FiniteSets, TLC

VARIABLES merges, patterns, special_tokens, vocab, disk, last,
          mergeIn, mergeOut, statsIn, statsOut

vars == <<merges, patterns, special_tokens, vocab, disk, last,
          mergeIn, mergeOut, statsIn, statsOut>>

tokVars == <<merges, patterns, special_tokens, vocab>>
pureVars == <<mergeIn, mergeOut, statsIn, statsOut>>

\* ------------------------------------------------------------------------
\* Return values and exceptions
Ok(v) == [err |-> "none", val |-> v]
Raise(e) == [err |-> e, val |-> <<>>]

\* ------------------------------------------------------------------------
\* Insertion-ordered dict
DictKeys(d) == {d[k][1] : k \in 1..Len(d)}
DictHas(d, key) == \E k \in 1..Len(d) : d[k][1] = key
DictPos(d, key) == CHOOSE k \in 1..Len(d) : d[k][1] = key
DictGet(d, key) == d[DictPos(d, key)][2]
DictGetOr(d, key, dflt) == IF DictHas(d, key) THEN DictGet(d, key) ELSE dflt
DictPut(d, key, v) ==
  IF DictHas(d, key)
  THEN [d EXCEPT ![DictPos(d, key)] = <<key, v>>]
  ELSE Append(d, <<key, v>>)

\* vocab[idx] = v on the id -> bytes mapping
VocabPut(voc, idx, v) ==
  [k \in (DOMAIN voc) \cup {idx} |-> IF k = idx THEN v ELSE voc[k]]

\* ------------------------------------------------------------------------
\* Program constants
ByteRange == 256
VERSION == <<98, 112, 101, 32, 118, 49, 46, 48>>   \* "bpe v1.0"
NL == 10
SP == 32
Whitespace == {32, 9, 10, 13, 11, 12}                \* " ", \t, \n, \r, \v, \f
REPLACEMENT == 65533                               \* U+FFFD

\* ------------------------------------------------------------------------
\* base.py: get_stats(ids, counts)
PyNone == [isNone |-> TRUE, dict |-> <<>>]
PyDict(d) == [isNone |-> FALSE, dict |-> d]

RECURSIVE get_stats_loop(_, _, _)
get_stats_loop(ids, counts, k) ==
  IF k > Len(ids) - 1 THEN counts
  ELSE LET pair == <<ids[k], ids[k + 1]>>
       IN get_stats_loop(ids, DictPut(counts, pair, DictGetOr(counts, pair, 0) + 1), k + 1)

get_stats(ids, counts) ==
  get_stats_loop(ids, IF counts.isNone THEN <<>> ELSE counts.dict, 1)

\* Binding of a positional argument list to the signature (ids, counts):
\* both parameters are required, neither has a default.
call_get_stats(args) ==
  IF Len(args) = 2 THEN Ok(get_stats(args[1], args[2])) ELSE Raise("TypeError")

\* ------------------------------------------------------------------------
\* base.py: merge(ids, pair, idx)
RECURSIVE merge_loop(_, _, _, _, _)
merge_loop(ids, pair, idx, i, newids) ==
  IF ~(i < Len(ids)) THEN newids
  ELSE IF ids[i + 1] = pair[1] /\ i < Len(ids) - 1 /\ ids[i + 2] = pair[2]
       THEN merge_loop(ids, pair, idx, i + 2, Append(newids, idx))
       ELSE merge_loop(ids, pair, idx, i + 1, Append(newids, ids[i + 1]))

\* A merge whose cursor advances by one after a replacement
RECURSIVE merge_loop_overlapping(_, _, _, _, _)
merge_loop_overlapping(ids, pair, idx, i, newids) ==
  IF ~(i < Len(ids)) THEN newids
  ELSE IF ids[i + 1] = pair[1] /\ i < Len(ids) - 1 /\ ids[i + 2] = pair[2]
       THEN merge_loop_overlapping(ids, pair, idx, i + 1, Append(newids, idx))
       ELSE merge_loop_overlapping(ids, pair, idx, i + 1, Append(newids, ids[i + 1]))

merge_overlapping(ids, pair, idx) == merge_loop_overlapping(ids, pair, idx, 0, <<>>)

merge(ids, pair, idx) == merge_loop(ids, pair, idx, 0, <<>>)

\* ------------------------------------------------------------------------
\* str.encode("utf-8") and bytes.decode("utf-8", errors="replace")
utf8_char(cp) ==
  IF cp < 128 THEN Ok(<<cp>>)
  ELSE IF cp < 2048 THEN Ok(<<192 + (cp \div 64), 128 + (cp % 64)>>)
  ELSE IF cp >= 55296 /\ cp <= 57343 THEN Raise("UnicodeEncodeError")
  ELSE IF cp < 65536
       THEN Ok(<<224 + (cp \div 4096), 128 + ((cp \div 64) % 64), 128 + (cp % 64)>>)
       ELSE Ok(<<240 + (cp \div 262144), 128 + ((cp \div 4096) % 64),
                 128 + ((cp \div 64) % 64), 128 + (cp % 64)>>)

RECURSIVE utf8_encode(_)
utf8_encode(text) ==
  IF text = <<>> THEN Ok(<<>>)
  ELSE LET h == utf8_char(Head(text))
           t == utf8_encode(Tail(text))
       IN IF h.err # "none" THEN h
          ELSE IF t.err # "none" THEN t
          ELSE Ok(h.val \o t.val)

IsCont(b) == b >= 128 /\ b <= 191

\* One decoding step at position k (1-based): <<code point, bytes consumed>>.
\* An ill-formed sequence yields U+FFFD for its maximal well-formed prefix.
utf8_step(bs, k) ==
  LET b0 == bs[k]
      has(j) == k + j <= Len(bs)
      b(j) == bs[k + j]
      need == IF b0 >= 194 /\ b0 <= 223 THEN 1
              ELSE IF b0 >= 224 /\ b0 <= 239 THEN 2
              ELSE IF b0 >= 240 /\ b0 <= 244 THEN 3
              ELSE 0
      lo1 == IF b0 = 224 THEN 160 ELSE IF b0 = 240 THEN 144 ELSE 128
      hi1 == IF b0 = 237 THEN 159 ELSE IF b0 = 244 THEN 143 ELSE 191
      ok1 == has(1) /\ b(1) >= lo1 /\ b(1) <= hi1
      ok2 == has(2) /\ IsCont(b(2))
      ok3 == has(3) /\ IsCont(b(3))
  IN IF b0 < 128 THEN <<b0, 1>>
     ELSE IF need = 0 THEN <<REPLACEMENT, 1>>
     ELSE IF ~ok1 THEN <<REPLACEMENT, 1>>
     ELSE IF need = 1 THEN <<(b0 - 192) * 64 + (b(1) - 128), 2>>
     ELSE IF ~ok2 THEN <<REPLACEMENT, 2>>
     ELSE IF need = 2
          THEN <<(b0 - 224) * 4096 + (b(1) - 128) * 64 + (b(2) - 128), 3>>
     ELSE IF ~ok3 THEN <<REPLACEMENT, 3>>
     ELSE <<(b0 - 240) * 262144 + (b(1) - 128) * 4096
             + (b(2) - 128) * 64 + (b(3) - 128), 4>>

RECURSIVE utf8_decode_from(_, _)
utf8_decode_from(bs, k) ==
  IF k > Len(bs) THEN <<>>
  ELSE LET st == utf8_step(bs, k)
       IN <<st[1]>> \o utf8_decode_from(bs, k + st[2])

utf8_decode_replace(bs) == utf8_decode_from(bs, 1)

\* ------------------------------------------------------------------------
\* The tokenizer object and the result of a method call on it
Self(m, p, s, v) == [merges |-> m, patterns |-> p, special_tokens |-> s, vocab |-> v]
MRes(e, v, self) == [err |-> e, val |-> v, self |-> self]

ByteVocab == [idx \in 0..(ByteRange - 1) |-> <<idx>>]

\* base.py: Tokenizer._build_vocab
RECURSIVE build_merges(_, _, _)
build_merges(mrg, k, voc) ==
  IF k > Len(mrg) THEN Ok(voc)
  ELSE LET p0 == mrg[k][1][1]
           p1 == mrg[k][1][2]
           idx == mrg[k][2]
       IN IF p0 \notin DOMAIN voc \/ p1 \notin DOMAIN voc THEN Raise("KeyError")
          ELSE build_merges(mrg, k + 1, VocabPut(voc, idx, voc[p0] \o voc[p1]))

RECURSIVE build_specials(_, _, _)
build_specials(spc, k, voc) ==
  IF k > Len(spc) THEN Ok(voc)
  ELSE LET enc == utf8_encode(spc[k][1])
       IN IF enc.err # "none" THEN Raise(enc.err)
          ELSE build_specials(spc, k + 1, VocabPut(voc, spc[k][2], enc.val))

_build_vocab(mrg, spc) ==
  LET v1 == build_merges(mrg, 1, ByteVocab)
  IN IF v1.err # "none" THEN v1 ELSE build_specials(spc, 1, v1.val)

\* base.py: Tokenizer.__init__
NewTokenizer == Self(<<>>, <<>>, <<>>, _build_vocab(<<>>, <<>>).val)

\* ------------------------------------------------------------------------
\* max(stats, key=stats.get): the first key, in iteration order, of largest count
RECURSIVE py_max_pos(_, _, _)
py_max_pos(stats, k, best) ==
  IF k > Len(stats) THEN best
  ELSE py_max_pos(stats, k + 1, IF stats[k][2] > stats[best][2] THEN k ELSE best)

\* min(stats, key=lambda p: merges.get(p, inf)): the first key of smallest rank;
\* a pair absent from merges ranks after every pair present in it
RankLess(mrg, p, q) ==
  /\ DictHas(mrg, p)
  /\ (~DictHas(mrg, q) \/ DictGet(mrg, p) < DictGet(mrg, q))

RECURSIVE py_min_pos(_, _, _, _)
py_min_pos(stats, mrg, k, best) ==
  IF k > Len(stats) THEN best
  ELSE py_min_pos(stats, mrg, k + 1,
                  IF RankLess(mrg, stats[k][1], stats[best][1]) THEN k ELSE best)

\* ------------------------------------------------------------------------
\* basic.py: BaseTokenizer.train
RECURSIVE train_loop(_, _, _, _, _)
train_loop(i, num_merges, ids, mrg, voc) ==
  IF i >= num_merges THEN Ok([merges |-> mrg, vocab |-> voc])
  ELSE LET stats == call_get_stats(<<ids>>)
       IN IF stats.err # "none" THEN Raise(stats.err)
          ELSE IF stats.val = <<>> THEN Raise("ValueError")
          ELSE LET pair == stats.val[py_max_pos(stats.val, 1, 1)][1]
                   idx == 256 + i
               IN train_loop(i + 1, num_merges, merge(ids, pair, idx),
                             DictPut(mrg, pair, idx),
                             VocabPut(voc, idx, voc[pair[1]] \o voc[pair[2]]))

\* A train that starts from the tokenizer's current merge table
train_keeps_merges(self, text, vocab_size) ==
  IF ~(vocab_size >= 256) THEN MRes("AssertionError", <<>>, self)
  ELSE LET test_bytes == utf8_encode(text)
       IN IF test_bytes.err # "none" THEN MRes(test_bytes.err, <<>>, self)
          ELSE LET r == train_loop(0, vocab_size - 256, test_bytes.val, self.merges, ByteVocab)
               IN IF r.err # "none" THEN MRes(r.err, <<>>, self)
                  ELSE MRes("none", <<>>,
                            [self EXCEPT !.merges = r.val.merges, !.vocab = r.val.vocab])

train(self, text, vocab_size) ==
  IF ~(vocab_size >= 256) THEN MRes("AssertionError", <<>>, self)
  ELSE LET test_bytes == utf8_encode(text)
       IN IF test_bytes.err # "none" THEN MRes(test_bytes.err, <<>>, self)
          ELSE LET r == train_loop(0, vocab_size - 256, test_bytes.val, <<>>, ByteVocab)
               IN IF r.err # "none" THEN MRes(r.err, <<>>, self)
                  ELSE MRes("none", <<>>,
                            [self EXCEPT !.merges = r.val.merges, !.vocab = r.val.vocab])

\* basic.py: BaseTokenizer.encode
RECURSIVE encode_loop(_, _)
encode_loop(mrg, ids) ==
  IF ~(Len(ids) >= 2) THEN Ok(ids)
  ELSE LET stats == call_get_stats(<<ids>>)
       IN IF stats.err # "none" THEN Raise(stats.err)
          ELSE LET pair == stats.val[py_min_pos(stats.val, mrg, 1, 1)][1]
               IN IF ~DictHas(mrg, pair) THEN Ok(ids)
                  ELSE encode_loop(mrg, merge(ids, pair, DictGet(mrg, pair)))

encode(self, text) ==
  LET text_bytes == utf8_encode(text)
  IN IF text_bytes.err # "none" THEN MRes(text_bytes.err, <<>>, self)
     ELSE LET r == encode_loop(self.merges, text_bytes.val)
          IN MRes(r.err, r.val, self)

\* basic.py: BaseTokenizer.decode
RECURSIVE join_vocab(_, _)
join_vocab(voc, ids) ==
  IF ids = <<>> THEN <<>> ELSE voc[Head(ids)] \o join_vocab(voc, Tail(ids))

decode(self, ids) ==
  IF \E k \in 1..Len(ids) : ids[k] \notin DOMAIN self.vocab
  THEN MRes("KeyError", <<>>, self)
  ELSE MRes("none", utf8_decode_replace(join_vocab(self.vocab, ids)), self)

\* ------------------------------------------------------------------------
\* str.strip(), str.split(), int(str), str(int), text-file lines
RECURSIVE lstrip(_)
lstrip(s) == IF s # <<>> /\ Head(s) \in Whitespace THEN lstrip(Tail(s)) ELSE s

RECURSIVE rstrip(_)
rstrip(s) ==
  IF s # <<>> /\ s[Len(s)] \in Whitespace THEN rstrip(SubSeq(s, 1, Len(s) - 1)) ELSE s

strip(s) == rstrip(lstrip(s))

RECURSIVE split_from(_, _, _)
split_from(s, k, cur) ==
  LET flush == IF cur = <<>> THEN <<>> ELSE <<cur>>
  IN IF k > Len(s) THEN flush
     ELSE IF s[k] \in Whitespace THEN flush \o split_from(s, k + 1, <<>>)
     ELSE split_from(s, k + 1, Append(cur, s[k]))

split(s) == split_from(s, 1, <<>>)

IsDigit(c) == c >= 48 /\ c <= 57

RECURSIVE digits_value(_, _)
digits_value(s, acc) ==
  IF s = <<>> THEN acc ELSE digits_value(Tail(s), acc * 10 + (Head(s) - 48))

\* int(s) for a word without whitespace: an optional sign, then decimal digits
py_int(s) ==
  LET signed == s # <<>> /\ s[1] \in {43, 45}
      body == IF signed THEN Tail(s) ELSE s
  IN IF body = <<>> \/ \E k \in 1..Len(body) : ~IsDigit(body[k])
     THEN Raise("ValueError")
     ELSE Ok(IF signed /\ s[1] = 45 THEN 0 - digits_value(body, 0)
             ELSE digits_value(body, 0))

RECURSIVE nat_digits(_)
nat_digits(n) ==
  IF n < 10 THEN <<48 + n>> ELSE Append(nat_digits(n \div 10), 48 + (n % 10))

py_str(n) == IF n < 0 THEN <<45>> \o nat_digits(0 - n) ELSE nat_digits(n)

\* The lines of a text file, each with its terminating newline when it has one
RECURSIVE read_lines(_, _)
read_lines(content, cur) ==
  IF content = <<>> THEN (IF cur = <<>> THEN <<>> ELSE <<cur>>)
  ELSE IF Head(content) = NL
       THEN <<Append(cur, NL)>> \o read_lines(Tail(content), <<>>)
       ELSE read_lines(Tail(content), Append(cur, Head(content)))

\* f.readline(): the next line, "" at end of file
readline(lines, pos) == IF pos <= Len(lines) THEN lines[pos] ELSE <<>>

endswith(s, suffix) ==
  Len(s) >= Len(suffix) /\ SubSeq(s, Len(s) - Len(suffix) + 1, Len(s)) = suffix

DotModel == <<46, 109, 111, 100, 101, 108>>   \* ".model"
DotVocab == <<46, 118, 111, 99, 97, 98>>      \* ".vocab"

NoFile == [exists |-> FALSE, content |-> <<>>]
File(c) == [exists |-> TRUE, content |-> c]

\* ------------------------------------------------------------------------
\* base.py: Tokenizer.save
RECURSIVE save_specials(_, _)
save_specials(spc, k) ==
  IF k > Len(spc) THEN <<>>
  ELSE spc[k][1] \o <<SP>> \o py_str(spc[k][2]) \o <<NL>> \o save_specials(spc, k + 1)

RECURSIVE save_merges(_, _)
save_merges(mrg, k) ==
  IF k > Len(mrg) THEN <<>>
  ELSE py_str(mrg[k][1][1]) \o <<SP>> \o py_str(mrg[k][1][2]) \o <<NL>>
       \o save_merges(mrg, k + 1)

\* inverted_merges[idx]: the pair of the last entry whose id is idx
InvertedHas(mrg, idx) == \E k \in 1..Len(mrg) : mrg[k][2] = idx
InvertedGet(mrg, idx) ==
  LET k == CHOOSE j \in 1..Len(mrg) :
             mrg[j][2] = idx /\ \A h \in (j + 1)..Len(mrg) : mrg[h][2] # idx
  IN mrg[k][1]

\* The lookups made while the listing is written
listing_raises(self) ==
  \E idx \in DOMAIN self.vocab :
      /\ InvertedHas(self.merges, idx)
      /\ LET pr == InvertedGet(self.merges, idx)
         IN pr[1] \notin DOMAIN self.vocab \/ pr[2] \notin DOMAIN self.vocab

\* val is the text written to {file_prefix}.model
save(self, file_prefix) ==
  LET model == VERSION \o <<NL>> \o self.patterns \o <<NL>>
               \o py_str(Len(self.special_tokens)) \o <<NL>>
               \o save_specials(self.special_tokens, 1)
               \o save_merges(self.merges, 1)
  IN MRes(IF listing_raises(self) THEN "KeyError" ELSE "none", model, self)

\* ------------------------------------------------------------------------
\* base.py: Tokenizer.load
\* The local idx is an int until a special-token line rebinds it to a str.
IntIdx(n) == [isStr |-> FALSE, int |-> n]
StrIdx == [isStr |-> TRUE, int |-> 0]

RECURSIVE load_specials(_, _, _, _, _)
load_specials(lines, pos, n, spc, idx) ==
  IF n <= 0 THEN Ok([special_tokens |-> spc, idx |-> idx])
  ELSE LET parts == split(strip(readline(lines, pos)))
       IN IF Len(parts) # 2 THEN Raise("ValueError")
          ELSE LET v == py_int(parts[2])
               IN IF v.err # "none" THEN Raise(v.err)
                  ELSE load_specials(lines, pos + 1, n - 1,
                                     DictPut(spc, parts[1], v.val), StrIdx)

RECURSIVE load_merges(_, _, _, _)
load_merges(lines, pos, mrg, idx) ==
  IF pos > Len(lines) THEN Ok(mrg)
  ELSE LET parts == split(strip(lines[pos]))
       IN IF Len(parts) # 2 \/ py_int(parts[1]).err # "none"
             \/ py_int(parts[2]).err # "none"
          THEN Raise("ValueError")
          ELSE IF idx.isStr THEN Raise("TypeError")
          ELSE load_merges(lines, pos + 1,
                           DictPut(mrg, <<py_int(parts[1]).val, py_int(parts[2]).val>>,
                                   idx.int),
                           IntIdx(idx.int + 1))

load_commit(self1, mrg, spc) ==
  LET self2 == [self1 EXCEPT !.merges = mrg, !.special_tokens = spc]
      v == _build_vocab(mrg, spc)
  IN IF v.err # "none" THEN MRes(v.err, <<>>, self2)
     ELSE MRes("none", <<>>, [self2 EXCEPT !.vocab = v.val])

load_body(self, lines) ==
  LET self1 == [self EXCEPT !.patterns = strip(readline(lines, 2))]
      n == py_int(strip(readline(lines, 3)))
  IN IF n.err # "none" THEN MRes(n.err, <<>>, self1)
     ELSE LET sp == load_specials(lines, 4, n.val, <<>>, IntIdx(256))
          IN IF sp.err # "none" THEN MRes(sp.err, <<>>, self1)
             ELSE LET first == 4 + (IF n.val > 0 THEN n.val ELSE 0)
                      mg == load_merges(lines, first, <<>>, sp.val.idx)
                  IN IF mg.err # "none" THEN MRes(mg.err, <<>>, self1)
                     ELSE load_commit(self1, mg.val, sp.val.special_tokens)

\* A load that assigns the pattern string before it checks the version
load_patterns_first(self, model_file, file) ==
  IF ~endswith(model_file, DotModel) THEN MRes("AssertionError", <<>>, self)
  ELSE IF ~file.exists THEN MRes("FileNotFoundError", <<>>, self)
  ELSE LET lines == read_lines(file.content, <<>>)
           version == strip(readline(lines, 1))
           self1 == [self EXCEPT !.patterns = strip(readline(lines, 2))]
       IN IF version # VERSION THEN MRes("AssertionError", <<>>, self1)
          ELSE load_body(self, lines)

load(self, model_file, file) ==
  IF ~endswith(model_file, DotModel) THEN MRes("AssertionError", <<>>, self)
  ELSE IF ~file.exists THEN MRes("FileNotFoundError", <<>>, self)
  ELSE LET lines == read_lines(file.content, <<>>)
           version == strip(readline(lines, 1))
       IN IF version # VERSION THEN MRes("AssertionError", <<>>, self)
          ELSE load_body(self, lines)

\* ------------------------------------------------------------------------
\* Bounds and input sets
MaxTextLen == 2
MaxMerges == 1
MaxDecodeLen == 1

SeqsUpTo(S, n) == UNION {[1..k -> S] : k \in 0..n}

TextAlphabet == {97, 233}                 \* "a", U+00E9
Texts == SeqsUpTo(TextAlphabet, MaxTextLen)
VocabSizes == 255..(256 + MaxMerges)
DecodeAlphabet == {97, 195, 256, 300}
DecodeInputs == SeqsUpTo(DecodeAlphabet, MaxDecodeLen)

RECURSIVE join_lines(_)
join_lines(ls) == IF ls = <<>> THEN <<>> ELSE Head(ls) \o <<NL>> \o join_lines(Tail(ls))

VersionLines == {VERSION, VERSION \o <<SP>>, <<98, 112, 101, 32, 118, 50>>}  \* .. "bpe v2"
PatternLines == {<<SP, 112>>}                                                \* " p"
SpecialName == <<60, 115, 62>>                                               \* "<s>"
SpecialSections ==
  { <<<<48>>>>,                                           \* "0"
    <<<<49>>, SpecialName \o <<SP, 51, 48, 48>>>>,        \* "1", "<s> 300"
    <<<<49>>, SpecialName>>,                              \* "1", "<s>"
    <<<<120>>>> }                                         \* "x"
MergeSections ==
  { <<>>,
    <<<<57, 55, SP, 57, 55>>>>,                           \* "97 97"
    <<<<50, 53, 54, SP, 57, 55>>>>,                       \* "256 97"
    <<<<57, 55, SP, 57, 55>>, <<50, 53, 54, SP, 57, 55>>>>,  \* "97 97", "256 97"
    <<<<57, 122>>>> }                                     \* "9z"

HandMadeFiles ==
  { join_lines(<<v, p>> \o s \o m) :
      v \in VersionLines, p \in PatternLines, s \in SpecialSections, m \in MergeSections }

Prefix == <<116>>                                         \* "t"
HandPath == <<104>> \o DotModel                           \* "h.model"

\* ------------------------------------------------------------------------
\* The tokenizer instance and its operations
SelfNow == Self(merges, patterns, special_tokens, vocab)

Return(op, arg, r) ==
  /\ merges' = r.self.merges
  /\ patterns' = r.self.patterns
  /\ special_tokens' = r.self.special_tokens
  /\ vocab' = r.self.vocab
  /\ last' = [op |-> op, arg |-> arg, err |-> r.err, val |-> r.val]

PureIdle ==
  /\ mergeIn = <<>>
  /\ mergeOut = <<>>
  /\ statsIn = <<>>
  /\ statsOut = <<>>

Init ==
  /\ merges = NewTokenizer.merges
  /\ patterns = NewTokenizer.patterns
  /\ special_tokens = NewTokenizer.special_tokens
  /\ vocab = NewTokenizer.vocab
  /\ disk = NoFile
  /\ last = [op |-> "init", arg |-> <<>>, err |-> "none", val |-> <<>>]
  /\ PureIdle

Train ==
  \E text \in Texts, vocab_size \in VocabSizes :
    /\ Return("train", [text |-> text, vocab_size |-> vocab_size],
              train(SelfNow, text, vocab_size))
    /\ UNCHANGED <<disk, pureVars>>

Encode ==
  \E text \in Texts :
    /\ Return("encode", [text |-> text], encode(SelfNow, text))
    /\ UNCHANGED <<disk, pureVars>>

Decode ==
  \E ids \in DecodeInputs \cup (IF last.op = "encode" /\ last.err = "none"
                                THEN {last.val} ELSE {}) :
    /\ Return("decode", [ids |-> ids], decode(SelfNow, ids))
    /\ UNCHANGED <<disk, pureVars>>

Save ==
  LET r == save(SelfNow, Prefix)
  IN /\ Return("save", [file_prefix |-> Prefix], r)
     /\ disk' = File(r.val)
     /\ UNCHANGED pureVars

LoadCall(model_file, file) ==
  /\ Return("load", [model_file |-> model_file, file |-> file],
            load(SelfNow, model_file, file))
  /\ UNCHANGED <<disk, pureVars>>

\* load of a model file that was not written by save
LoadHandMade == \E c \in HandMadeFiles : LoadCall(HandPath, File(c))

\* load of the model file save wrote (or of its path before anything was saved)
LoadSaved == LoadCall(Prefix \o DotModel, disk)

\* load called on the listing's path
LoadListing == LoadCall(Prefix \o DotVocab, disk)

Next == Train \/ Encode \/ Decode \/ Save \/ LoadHandMade \/ LoadSaved \/ LoadListing

Spec == Init /\ [][Next]_vars

\* ------------------------------------------------------------------------
\* merge as a function of its arguments
MaxMergeLen == 4
MergeAlphabet == {1, 2}
MergeIds == {2, 9}

InitMerge ==
  /\ merges = NewTokenizer.merges
  /\ patterns = NewTokenizer.patterns
  /\ special_tokens = NewTokenizer.special_tokens
  /\ vocab = NewTokenizer.vocab
  /\ disk = NoFile
  /\ last = [op |-> "init", arg |-> <<>>, err |-> "none", val |-> <<>>]
  /\ mergeIn \in {[ids |-> ids, pair |-> <<a, b>>, idx |-> idx] :
                    ids \in SeqsUpTo(MergeAlphabet, MaxMergeLen),
                    a \in MergeAlphabet, b \in MergeAlphabet, idx \in MergeIds}
  /\ mergeOut = <<>>
  /\ statsIn = <<>>
  /\ statsOut = <<>>

CallMerge ==
  /\ mergeOut = <<>>
  /\ mergeOut' = <<merge(mergeIn.ids, mergeIn.pair, mergeIn.idx)>>
  /\ UNCHANGED <<tokVars, disk, last, mergeIn, statsIn, statsOut>>

NextMerge == CallMerge

SpecMerge == InitMerge /\ [][NextMerge]_vars

\* ------------------------------------------------------------------------
\* get_stats as a function of its call's positional arguments
MaxStatsLen == 3
StatsAlphabet == {1, 2}
PriorCounts == { <<>>, <<<<<<1, 2>>, 3>>>>, <<<<<<2, 2>>, 1>>, <<<<1, 1>>, 2>>>> }

InitStats ==
  /\ merges = NewTokenizer.merges
  /\ patterns = NewTokenizer.patterns
  /\ special_tokens = NewTokenizer.special_tokens
  /\ vocab = NewTokenizer.vocab
  /\ disk = NoFile
  /\ last = [op |-> "init", arg |-> <<>>, err |-> "none", val |-> <<>>]
  /\ mergeIn = <<>>
  /\ mergeOut = <<>>
  /\ statsIn \in {<<ids>> : ids \in SeqsUpTo(StatsAlphabet, MaxStatsLen)}
                 \cup {<<ids, PyNone>> : ids \in SeqsUpTo(StatsAlphabet, MaxStatsLen)}
                 \cup {<<ids, PyDict(d)>> : ids \in SeqsUpTo(StatsAlphabet, MaxStatsLen),
                                            d \in PriorCounts}
  /\ statsOut = <<>>

CallGetStats ==
  /\ statsOut = <<>>
  /\ statsOut' = <<call_get_stats(statsIn)>>
  /\ UNCHANGED <<tokVars, disk, last, mergeIn, mergeOut, statsIn>>

NextStats == CallGetStats

SpecStats == InitStats /\ [][NextStats]_vars

\* ------------------------------------------------------------------------
\* save followed by load, from any well-formed tokenizer state
MaxTableLen == 2
TableIds == {97, 98} \cup {256 + k : k \in 0..(MaxTableLen - 2)}
TablePairs == TableIds \X TableIds
MergeTables ==
  { [k \in 1..Len(t) |-> <<t[k], 256 + k - 1>>] :
      t \in { u \in SeqsUpTo(TablePairs, MaxTableLen) :
                /\ \A k \in 1..Len(u) : u[k][1] < 256 + k - 1 /\ u[k][2] < 256 + k - 1
                /\ \A j, k \in 1..Len(u) : j # k => u[j] # u[k] } }
StatePatterns == {<<>>, <<112>>}                                  \* "", "p"
StateSpecials == {<<>>, <<<<SpecialName, 300>>>>}

InitSaveLoad ==
  /\ merges \in MergeTables
  /\ patterns \in StatePatterns
  /\ special_tokens \in StateSpecials
  /\ vocab = _build_vocab(merges, special_tokens).val
  /\ disk = NoFile
  /\ last = [op |-> "init", arg |-> <<>>, err |-> "none", val |-> <<>>]
  /\ PureIdle

NextSaveLoad == Save \/ LoadSaved

SpecSaveLoad == InitSaveLoad /\ [][NextSaveLoad]_vars

\* ------------------------------------------------------------------------
\* Properties

Range(s) == {s[k] : k \in 1..Len(s)}
HasAdjacent(s, P) == \E k \in 1..(Len(s) - 1) : s[k] = P[1] /\ s[k + 1] = P[2]

\* Greedy left-to-right non-overlapping replacement, by recursion on the sequence
RECURSIVE GreedyReplace(_, _, _)
GreedyReplace(S, P, R) ==
  IF Len(S) < 2 THEN S
  ELSE IF S[1] = P[1] /\ S[2] = P[2]
       THEN <<R>> \o GreedyReplace(SubSeq(S, 3, Len(S)), P, R)
       ELSE <<S[1]>> \o GreedyReplace(Tail(S), P, R)

\* Every R written back as the two elements of P
RECURSIVE Expand(_, _, _)
Expand(S, P, R) ==
  IF S = <<>> THEN <<>>
  ELSE (IF Head(S) = R THEN <<P[1], P[2]>> ELSE <<Head(S)>>) \o Expand(Tail(S), P, R)

PairCount(ids, pair) ==
  Cardinality({k \in 1..(Len(ids) - 1) : <<ids[k], ids[k + 1]>> = pair})

RECURSIVE FirstLine(_)
FirstLine(c) ==
  IF c = <<>> \/ Head(c) = NL THEN <<>> ELSE <<Head(c)>> \o FirstLine(Tail(c))

IsLoadOfFile ==
  /\ last.op = "load"
  /\ endswith(last.arg.model_file, DotModel)
  /\ last.arg.file.exists

\* C1: after training, decode(encode(T)) returns exactly T for every text T,
\* including T = "" where encode returns [] and decode([]) returns "".
C1_RoundTrip ==
  last.op = "encode" =>
    /\ last.err = "none"
    /\ decode(SelfNow, last.val).err = "none"
    /\ decode(SelfNow, last.val).val = last.arg.text
    /\ (last.arg.text = <<>> => last.val = <<>>)

\* C2: a train that completes leaves a merge table with one entry per merge
\* step (no pair selected twice), whose k-th entry in rank order has id
\* 256 + k - 1.
C2_TrainedTableGapFree ==
  (last.op = "train" /\ last.err = "none") =>
    /\ Len(merges) = last.arg.vocab_size - 256
    /\ \A k \in 1..Len(merges) : merges[k][2] = 256 + k - 1

C2_Witness ==
  /\ last.op = "train"
  /\ last.err = "none"
  /\ patterns # <<>>
  /\ disk.exists

\* C3: in every state reached by construction, train and load calls, the vocab
\* held equals what _build_vocab computes from the merge table and the
\* special-token table.
C3_VocabDerivable ==
  /\ _build_vocab(merges, special_tokens).err = "none"
  /\ _build_vocab(merges, special_tokens).val = vocab

\* C4: loading the model file that save wrote reproduces the merge table
\* (pairs, ids, rank order), the pattern string and the special tokens.
C4_SaveLoadRoundTrip ==
  last.op = "save" =>
    LET r == load(NewTokenizer, Prefix \o DotModel, disk)
    IN /\ r.err = "none"
       /\ r.self.merges = merges
       /\ r.self.patterns = patterns
       /\ r.self.special_tokens = special_tokens

\* C5 (as stated): a load of a model file whose first line is not exactly the
\* version string fails and leaves merges, patterns, special tokens and vocab
\* unchanged.
C5_ExactVersionRejected ==
  [][(IsLoadOfFile' /\ FirstLine(last'.arg.file.content) # VERSION)
       => (last'.err = "AssertionError" /\ UNCHANGED tokVars)]_vars

\* C5 (amended): a load of a model file whose first line, with leading and
\* trailing whitespace stripped, is not the version string fails with the
\* version assertion and leaves merges, patterns, special tokens and vocab
\* unchanged.
C5_StrippedVersionRejected ==
  [][(IsLoadOfFile' /\ strip(FirstLine(last'.arg.file.content)) # VERSION)
       => (last'.err = "AssertionError" /\ UNCHANGED tokVars)]_vars

C5_Witness ==
  /\ IsLoadOfFile
  /\ strip(FirstLine(last.arg.file.content)) # VERSION
  /\ last.err = "AssertionError"
  /\ merges # <<>>
  /\ Len(read_lines(last.arg.file.content, <<>>)) = 3

\* C6: a load that fails after the version line leaves merges, patterns,
\* special tokens and vocab as they were; only a load that succeeds replaces
\* them, all together.
C6_FailedLoadChangesNothing ==
  [][(IsLoadOfFile' /\ strip(FirstLine(last'.arg.file.content)) = VERSION)
       => /\ last'.err # "none" => UNCHANGED tokVars
          /\ last'.err = "none" =>
               vocab' = _build_vocab(merges', special_tokens').val]_vars

\* C7: merge(S, P, R) is the greedy left-to-right non-overlapping replacement
\* of P by R: (X,X) on [X,X,X] gives [R,X], the output is never longer than
\* the input, and for R not in S the output has no adjacent P and expands
\* back to S.
C7_MergeIsGreedyReplacement ==
  mergeOut # <<>> =>
    LET S == mergeIn.ids
        P == mergeIn.pair
        R == mergeIn.idx
        out == mergeOut[1]
    IN /\ out = GreedyReplace(S, P, R)
       /\ Len(out) <= Len(S)
       /\ (R \notin Range(S) => ~HasAdjacent(out, P) /\ Expand(out, P, R) = S)
       /\ (S = <<P[1], P[1], P[1]>> /\ P[2] = P[1] => out = <<R, P[1]>>)

C7_Witness ==
  /\ mergeIn.ids = <<1, 1, 1>>
  /\ mergeIn.pair = <<1, 1>>
  /\ mergeIn.idx = 9
  /\ mergeOut = <<<<9, 1>>>>

\* C8: get_stats, called with a sequence alone or with a sequence and a counts
\* mapping, returns every adjacent pair's number of occurrences added to the
\* given counts, the empty mapping for a sequence shorter than 2 without prior
\* counts, and never fails.
C8_GetStatsCountsEveryCall ==
  statsOut # <<>> =>
    LET ids == statsIn[1]
        prior == IF Len(statsIn) = 2 /\ ~statsIn[2].isNone THEN statsIn[2].dict ELSE <<>>
        r == statsOut[1]
    IN /\ r.err = "none"
       /\ \A a \in StatsAlphabet, b \in StatsAlphabet :
            DictGetOr(r.val, <<a, b>>, 0)
              = PairCount(ids, <<a, b>>) + DictGetOr(prior, <<a, b>>, 0)
       /\ (Len(ids) < 2 /\ prior = <<>> => r.val = <<>>)

\* C9: a train asked for more merges than the corpus can supply (fewer than
\* two bytes, vocab size above 256) terminates normally with the merges
\* learned so far.
C9_ShortCorpusTrainCompletes ==
  (/\ last.op = "train"
   /\ last.arg.vocab_size > 256
   /\ utf8_encode(last.arg.text).err = "none"
   /\ Len(utf8_encode(last.arg.text).val) < 2)
    => (last.err = "none" /\ merges = <<>>)

\* C10: encode terminates with a sequence in which no adjacent pair is in the
\* merge table, after at most len(bytes) - 1 merges, each of which shortened
\* the sequence.
C10_EncodeReachesFixpoint ==
  last.op = "encode" =>
    LET n == Len(utf8_encode(last.arg.text).val)
    IN /\ last.err = "none"
       /\ \A k \in 1..(Len(last.val) - 1) :
            ~DictHas(merges, <<last.val[k], last.val[k + 1]>>)
       /\ Len(last.val) <= n
       /\ (n >= 1 => Len(last.val) >= 1)

====
